---- MODULE Spec2Model ----
\* Zoho Cliq + Meta Ads backend: the credential store (models/UserToken.js),
\* the OAuth flow (routes/auth.js), the request gate and the data endpoints
\* (routes/meta.js) and the Graph API client (services/metaApi.js, whose
\* text is kept in TESTING.md).
EXTENDS Integers, Sequences, FiniteSets, TLC

\* ------------------------------------------------------------------ bounds
MaxTime == 2          \* the clock runs 0..MaxTime
MaxCallbacks == 2     \* code-for-token exchanges answered with a token
MaxForms == 6         \* lead forms an account has
MaxLeads == 2         \* leads the upstream returns for one form
MaxIdLen == 3         \* bytes of a user id in the state parameter
MaxChunks == 3        \* pieces an account id is put together from

\* --------------------------------------------------------------- constants
DefaultLongLived == 5184000   \* auth.js:140, seconds
MaxFormsProcessed == 5        \* metaApi.js getLeads: slice(0, 5)

\* ------------------------------------------------------------------ values
\* null / undefined of a string-valued field or query parameter
NULL == "null"
\* a Date is <<t>>, t in seconds; the null Date is <<>>
NullDate == <<>>
Date(t) == <<t>>

\* users who run the OAuth flow, and user ids a request may carry
Users == {"u1"}
RequestUsers == {"u1", "u2"}
\* expires_in as the upstream may report it: absent, or a number of seconds
NoExpiresIn == <<>>
ExpiresInVals == {NoExpiresIn, <<0>>, <<1>>}
\* token_type as the upstream reports it
TokenTypes == {"bearer"}
\* An ad-account id is the tuple of its characters; the empty one stands for
\* a null, undefined or empty id (all falsy). What /me/adaccounts lists
\* first, and what a caller passes as adAccountId:
NoAccount == <<>>
ActPrefix == <<"a", "c", "t", "_">>
DiscoveredAccounts == {ActPrefix \o <<"1">>}
QueryAccounts == {NoAccount, ActPrefix \o <<"2">>}
DataEndpoints == {"accounts", "campaigns", "spend", "leads", "adsets"}
TimeRanges == {NULL, "json", "notjson"}

VARIABLES
  now,      \* Date.now(), in seconds
  store,    \* the UserToken collection: a set of documents
  cb,       \* the /auth/callback requests in flight: position and locals of each
  issued,   \* code-for-token exchanges the upstream has answered with a token
  resp,     \* the response of the turn just run, until it is sent
  lpc,      \* getLeads: "idle", "loop", "returned" or "threw"
  lforms,   \* getLeads: formsResponse.data
  lpos,     \* getLeads: forms of the listing the loop has been through
  lfetched, \* getLeads: what each per-form request came back with, in order
  lcalls,   \* getLeads: the Graph API paths requested, in order
  leads,    \* getLeads: the leads array
  sPc,      \* the state parameter: "start", "url", "callback" or "decoded"
  sUserId,  \* the state parameter: req.query.userId of /auth/start, as bytes
  sState,   \* the state parameter: its characters, as built and as received
  sParsed,  \* the state parameter: what the callback's try block came to
  oPc,      \* an upstream operation: "idle", or the operation that ran
  oAccount, \* an upstream operation: the adAccountId the handler passes
  oQuery,   \* an upstream operation: req.query of the data request
  oRequest  \* an upstream operation: the Graph API request it makes

mvars == <<now, store, cb, issued, resp>>
lvars == <<lpc, lforms, lpos, lfetched, lcalls, leads>>
svars == <<sPc, sUserId, sState, sParsed>>
ovars == <<oPc, oAccount, oQuery, oRequest>>
pvars == <<svars, ovars>>
vars == <<now, store, cb, issued, resp, lpc, lforms, lpos, lfetched, lcalls,
          leads, sPc, sUserId, sState, sParsed, oPc, oAccount, oQuery,
          oRequest>>

\* ------------------------------------------------------ models/UserToken.js
\* isExpired without its guard for a missing expiry: Date.now() >= null
isExpired_NoNullGuard(doc, t) ==
  t >= (IF doc.expiresAt = NullDate THEN 0 ELSE doc.expiresAt[1])

\* userTokenSchema.methods.isExpired
isExpired(doc, t) ==
  IF doc.expiresAt = NullDate THEN FALSE ELSE t >= doc.expiresAt[1]

\* UserToken.findOne({ userId }): the documents the filter matches
findOne(docs, userId) == {d \in docs : d.userId = userId}

\* A document as the schema's defaults complete it on insert
NewDocument(docs, t, tokenData) ==
  [ id           |-> Cardinality(docs) + 1,
    userId       |-> tokenData.userId,
    accessToken  |-> tokenData.accessToken,
    refreshToken |-> NULL,
    expiresAt    |-> tokenData.expiresAt,
    tokenType    |-> tokenData.tokenType,
    adAccountId  |-> tokenData.adAccountId,
    createdAt    |-> t,
    updatedAt    |-> t ]

\* The update of a matched document: the fields of tokenData are set, the
\* rest of the document is left as it is (no save hook runs on this path)
UpdatedDocument(d, t, tokenData) ==
  [ d EXCEPT !.userId      = tokenData.userId,
             !.accessToken = tokenData.accessToken,
             !.expiresAt   = tokenData.expiresAt,
             !.tokenType   = tokenData.tokenType,
             !.adAccountId = tokenData.adAccountId ]

\* UserToken.create(tokenData) in the place of the upsert
findOneAndUpdate_Create(docs, t, tokenData) ==
  docs \cup {NewDocument(docs, t, tokenData)}

\* UserToken.findOneAndUpdate({ userId }, tokenData, { upsert: true, new: true })
findOneAndUpdate(docs, t, tokenData) ==
  LET hit == findOne(docs, tokenData.userId) IN
  IF hit = {}
  THEN docs \cup {NewDocument(docs, t, tokenData)}
  ELSE LET d == CHOOSE x \in hit : \A y \in hit : x.id <= y.id
       IN  (docs \ {d}) \cup {UpdatedDocument(d, t, tokenData)}

\* ----------------------------------------------------------- routes/auth.js
\* JSON.stringify({ userId }) and Buffer.from(..).toString('base64'): the text
\* and its encoding are kept apart, so that decoding has something to undo
JSONstringify(obj) == <<"json", obj>>
Base64Encode(text) == <<"base64", text>>
Base64Decode(state) == IF state[1] = "base64" THEN state[2] ELSE <<"bytes">>
IsJSON(text) == text[1] = "json"
\* the state /auth/start builds
EncodeState(userId) == Base64Encode(JSONstringify([userId |-> userId]))
\* state values a callback may arrive with
StateInputs ==
  {<<NULL>>, <<"opaque">>, Base64Encode(<<"text">>),
   Base64Encode(JSONstringify([other |-> "x"]))}
    \cup {EncodeState(u) : u \in Users}

\* decodedState.userId of a parsed object: undefined when the key is absent
UserIdOf(obj) == IF "userId" \in DOMAIN obj THEN obj.userId ELSE NULL

\* new Date(Date.now() + expires_in * 1000) when expires_in is truthy
Truthy(e) == e # NoExpiresIn /\ e[1] # 0
ExpiryOf(e, t) == IF Truthy(e) THEN Date(t + e[1]) ELSE NullDate
\* longLivedResponse.data.expires_in || 5184000
LongLivedExpiry(e, t) ==
  Date(t + (IF Truthy(e) THEN e[1] ELSE DefaultLongLived))
\* token_type || 'Bearer'
TokenTypeOf(tt) == IF tt = NULL THEN "Bearer" ELSE tt

NoResp == [op |-> "none"]

CallbackResp(status, error, userId, expiresAt, calls) ==
  [op |-> "callback", status |-> status, error |-> error, userId |-> userId,
   expiresAt |-> expiresAt, calls |-> calls]

Init ==
  /\ now = 0
  /\ store = {}
  /\ cb = {}
  /\ issued = 0
  /\ resp = NoResp
  /\ lpc = "idle"
  /\ lforms = <<>>
  /\ lpos = 0
  /\ lfetched = <<>>
  /\ lcalls = <<>>
  /\ leads = <<>>
  /\ sPc = "start"
  /\ sUserId = <<>>
  /\ sState = <<>>
  /\ sParsed = <<"none">>
  /\ oPc = "idle"
  /\ oAccount = <<>>
  /\ oQuery = <<>>
  /\ oRequest = <<>>

\* The clock
Tick ==
  /\ resp = NoResp
  /\ now < MaxTime
  /\ now' = now + 1
  /\ UNCHANGED <<store, cb, issued, resp>>
  /\ UNCHANGED lvars
  /\ UNCHANGED pvars

\* The event loop sends the response of the turn it has just run before it
\* runs another
Send ==
  /\ resp # NoResp
  /\ resp' = NoResp
  /\ UNCHANGED <<now, store, cb, issued>>
  /\ UNCHANGED lvars
  /\ UNCHANGED pvars

\* The rejections without the test of the error parameter
CallbackReject_IgnoresError(code, state, error) ==
  /\ resp = NoResp
  /\ \/ /\ (code = NULL \/ state = <<NULL>>)
        /\ resp' = CallbackResp(400, "Missing code or state parameter",
                                NULL, NullDate, 0)
     \/ /\ code # NULL /\ state # <<NULL>>
        /\ ~IsJSON(Base64Decode(state))
        /\ resp' = CallbackResp(400, "Invalid state parameter",
                                NULL, NullDate, 0)
  /\ UNCHANGED <<now, store, cb, issued>>
  /\ UNCHANGED lvars
  /\ UNCHANGED pvars

\* GET /auth/callback, up to the code-for-token exchange (lines 70-96): the
\* rejections that come before any upstream call
CallbackReject(code, state, error) ==
  /\ resp = NoResp
  /\ \/ /\ error # NULL
        /\ resp' = CallbackResp(400, "OAuth error", NULL, NullDate, 0)
     \/ /\ error = NULL
        /\ (code = NULL \/ state = <<NULL>>)
        /\ resp' = CallbackResp(400, "Missing code or state parameter",
                                NULL, NullDate, 0)
     \/ /\ error = NULL /\ code # NULL /\ state # <<NULL>>
        /\ ~IsJSON(Base64Decode(state))
        /\ resp' = CallbackResp(400, "Invalid state parameter",
                                NULL, NullDate, 0)
  /\ UNCHANGED <<now, store, cb, issued>>
  /\ UNCHANGED lvars
  /\ UNCHANGED pvars

\* The state and code are accepted when none of the rejections applies
Accepted(code, state, error) ==
  /\ error = NULL /\ code # NULL /\ state # <<NULL>>
  /\ IsJSON(Base64Decode(state))

\* ... the exchange itself fails (lines 107-114): the request throws, or no
\* token comes back
CallbackExchangeFails(code, state, error) ==
  /\ resp = NoResp
  /\ Accepted(code, state, error)
  /\ \/ resp' = CallbackResp(500, "upstream", NULL, NullDate, 1)
     \/ resp' = CallbackResp(400, "Failed to obtain access token",
                             NULL, NullDate, 1)
  /\ UNCHANGED <<now, store, cb, issued>>
  /\ UNCHANGED lvars
  /\ UNCHANGED pvars

\* ... the exchange returns a short-lived token (lines 107-125): the request
\* is now in flight, waiting for the long-lived upgrade
CallbackExchange(code, state, error, expires_in, token_type) ==
  /\ resp = NoResp
  /\ Accepted(code, state, error)
  /\ issued < MaxCallbacks
  /\ issued' = issued + 1
  /\ LET access_token == <<"short", issued + 1>>
         expiresAt == ExpiryOf(expires_in, now)
     IN  cb' = cb \cup
           {[ pc                 |-> "upgrade",
              userId             |-> UserIdOf(Base64Decode(state)[2]),
              token_type         |-> token_type,
              longLivedToken     |-> access_token,
              longLivedExpiresAt |-> expiresAt ]}
  /\ UNCHANGED <<now, store, resp>>
  /\ UNCHANGED lvars
  /\ UNCHANGED pvars

\* The long-lived upgrade without its try/catch: the error reaches the outer
\* catch and the callback answers 500
CallbackUpgradeFails_Fatal(l) ==
  /\ resp = NoResp
  /\ l \in cb /\ l.pc = "upgrade"
  /\ cb' = cb \ {l}
  /\ resp' = CallbackResp(500, "upstream", NULL, NullDate, 2)
  /\ UNCHANGED <<now, store, issued>>
  /\ UNCHANGED lvars
  /\ UNCHANGED pvars

\* The long-lived upgrade of the in-flight request l (lines 127-146): the
\* call throws or returns no token, and the short-lived token stays
CallbackUpgradeFails(l) ==
  /\ resp = NoResp
  /\ l \in cb /\ l.pc = "upgrade"
  /\ cb' = (cb \ {l}) \cup {[l EXCEPT !.pc = "discover"]}
  /\ UNCHANGED <<now, store, issued, resp>>
  /\ UNCHANGED lvars
  /\ UNCHANGED pvars

\* ... or it returns a long-lived token
CallbackUpgrade(l, expires_in) ==
  /\ resp = NoResp
  /\ l \in cb /\ l.pc = "upgrade"
  /\ cb' = (cb \ {l}) \cup
           {[l EXCEPT !.pc = "discover",
                      !.longLivedToken = <<"long", l.longLivedToken[2]>>,
                      !.longLivedExpiresAt = LongLivedExpiry(expires_in, now)]}
  /\ UNCHANGED <<now, store, issued, resp>>
  /\ UNCHANGED lvars
  /\ UNCHANGED pvars

\* accountsResponse.data.data[0].id when the discovery call lists an account
\* (lines 149-164); a call that throws, or lists none, leaves null
DiscoveryOutcomes == {<<"throws">>, <<"data">>} \cup
                     {<<"data", a>> : a \in DiscoveredAccounts}
FirstAccount(outcome) == IF Len(outcome) = 2 THEN outcome[2] ELSE NoAccount

\* tokenData (lines 167-173)
TokenData(l, adAccountId) ==
  [ userId      |-> l.userId,
    accessToken |-> l.longLivedToken,
    expiresAt   |-> l.longLivedExpiresAt,
    tokenType   |-> TokenTypeOf(l.token_type),
    adAccountId |-> adAccountId ]

\* The ad-account discovery, the upsert and the success response (lines
\* 149-186). What discovery returns stays local to the request until the
\* upsert, so the two awaits are one step here.
CallbackSave(l, discovery) ==
  /\ resp = NoResp
  /\ l \in cb /\ l.pc = "discover"
  /\ store' = findOneAndUpdate(store, now,
                               TokenData(l, FirstAccount(discovery)))
  /\ resp' = CallbackResp(200, NULL, l.userId, l.longLivedExpiresAt, 3)
  /\ cb' = cb \ {l}
  /\ UNCHANGED <<now, issued>>
  /\ UNCHANGED lvars
  /\ UNCHANGED pvars

Callback ==
  \/ \E code \in {NULL, "code"}, state \in StateInputs,
        error \in {NULL, "access_denied"} :
       \/ CallbackReject(code, state, error)
       \/ CallbackExchangeFails(code, state, error)
       \/ \E e \in ExpiresInVals, tt \in TokenTypes :
            CallbackExchange(code, state, error, e, tt)
  \/ \E l \in cb : CallbackUpgradeFails(l)
  \/ \E l \in cb, e \in ExpiresInVals : CallbackUpgrade(l, e)
  \/ \E l \in cb, d \in DiscoveryOutcomes : CallbackSave(l, d)

\* GET /auth/start (lines 14-62); the app id and secret are configured
StartResponse(userId) ==
  IF userId = NULL
  THEN [op |-> "start", status |-> 400, state |-> <<NULL>>]
  ELSE [op |-> "start", status |-> 200, state |-> EncodeState(userId)]

AuthStart(userId) ==
  /\ resp = NoResp
  /\ resp' = StartResponse(userId)
  /\ UNCHANGED <<now, store, cb, issued>>
  /\ UNCHANGED lvars
  /\ UNCHANGED pvars

\* /auth/status that reports every stored credential as authenticated
StatusResponse_NoExpiry(userId) ==
  IF userId = NULL
  THEN [op |-> "status", status |-> 400, success |-> FALSE,
        authenticated |-> FALSE, expired |-> FALSE,
        expiresAt |-> NullDate, adAccountId |-> NoAccount]
  ELSE LET hit == findOne(store, userId) IN
       IF hit = {}
       THEN [op |-> "status", status |-> 200, success |-> FALSE,
             authenticated |-> FALSE, expired |-> FALSE,
             expiresAt |-> NullDate, adAccountId |-> NoAccount]
       ELSE LET userToken == CHOOSE x \in hit : \A y \in hit : x.id <= y.id
            IN  [op |-> "status", status |-> 200, success |-> TRUE,
                 authenticated |-> TRUE, expired |-> FALSE,
                 expiresAt |-> userToken.expiresAt,
                 adAccountId |-> userToken.adAccountId]

\* GET /auth/status (lines 200-237)
StatusResponse(userId) ==
  IF userId = NULL
  THEN [op |-> "status", status |-> 400, success |-> FALSE,
        authenticated |-> FALSE, expired |-> FALSE,
        expiresAt |-> NullDate, adAccountId |-> NoAccount]
  ELSE LET hit == findOne(store, userId) IN
       IF hit = {}
       THEN [op |-> "status", status |-> 200, success |-> FALSE,
             authenticated |-> FALSE, expired |-> FALSE,
             expiresAt |-> NullDate, adAccountId |-> NoAccount]
       ELSE LET userToken == CHOOSE x \in hit : \A y \in hit : x.id <= y.id
            IN  [op |-> "status", status |-> 200, success |-> TRUE,
                 authenticated |-> ~isExpired(userToken, now),
                 expired |-> isExpired(userToken, now),
                 expiresAt |-> userToken.expiresAt,
                 adAccountId |-> userToken.adAccountId]

AuthStatus(userId) ==
  /\ resp = NoResp
  /\ resp' = StatusResponse(userId)
  /\ UNCHANGED <<now, store, cb, issued>>
  /\ UNCHANGED lvars
  /\ UNCHANGED pvars

\* ----------------------------------------------------------- routes/meta.js
\* a || b on two account ids
Or(a, b) == IF a # NoAccount THEN a ELSE b

\* validateUserAndToken without the check for a missing credential:
\* userToken.isExpired() throws on null and the catch answers 500
validateUserAndToken_NullDeref(userId, queryAdAccountId) ==
  IF userId = NULL
  THEN [next |-> FALSE, status |-> 400, error |-> "userId is required",
        expired |-> FALSE]
  ELSE LET hit == findOne(store, userId) IN
       IF hit = {}
       THEN [next |-> FALSE, status |-> 500,
             error |-> "Failed to validate authentication", expired |-> FALSE]
       ELSE LET userToken == CHOOSE x \in hit : \A y \in hit : x.id <= y.id IN
            IF isExpired(userToken, now)
            THEN [next |-> FALSE, status |-> 401,
                  error |-> "Access token expired", expired |-> TRUE]
            ELSE [next |-> TRUE,
                  accessToken |-> userToken.accessToken,
                  adAccountId |-> Or(userToken.adAccountId, queryAdAccountId)]

\* validateUserAndToken without the call of isExpired()
validateUserAndToken_NoExpiryCheck(userId, queryAdAccountId) ==
  IF userId = NULL
  THEN [next |-> FALSE, status |-> 400, error |-> "userId is required",
        expired |-> FALSE]
  ELSE LET hit == findOne(store, userId) IN
       IF hit = {}
       THEN [next |-> FALSE, status |-> 401, error |-> "User not authenticated",
             expired |-> FALSE]
       ELSE LET userToken == CHOOSE x \in hit : \A y \in hit : x.id <= y.id IN
            [next |-> TRUE,
             accessToken |-> userToken.accessToken,
             adAccountId |-> Or(userToken.adAccountId, queryAdAccountId)]

\* validateUserAndToken (lines 9-50): what it sends itself, or what it
\* attaches to the request before next()
validateUserAndToken(userId, queryAdAccountId) ==
  IF userId = NULL
  THEN [next |-> FALSE, status |-> 400, error |-> "userId is required",
        expired |-> FALSE]
  ELSE LET hit == findOne(store, userId) IN
       IF hit = {}
       THEN [next |-> FALSE, status |-> 401, error |-> "User not authenticated",
             expired |-> FALSE]
       ELSE LET userToken == CHOOSE x \in hit : \A y \in hit : x.id <= y.id IN
            IF isExpired(userToken, now)
            THEN [next |-> FALSE, status |-> 401,
                  error |-> "Access token expired", expired |-> TRUE]
            ELSE [next |-> TRUE,
                  accessToken |-> userToken.accessToken,
                  adAccountId |-> Or(userToken.adAccountId, queryAdAccountId)]

DataResp(status, error, expired, ran, token, account, calls) ==
  [op |-> "data", status |-> status, error |-> error, expired |-> expired,
   ran |-> ran, accessToken |-> token, adAccountId |-> account,
   calls |-> calls]

\* A data endpoint behind the gate: /meta/accounts (lines 210-226) needs no
\* ad account; /meta/campaigns, /spend, /leads, /adsets (lines 56-204) do,
\* and /spend parses timeRange before it calls the upstream. upstreamOk is
\* whether the Graph API call of the handler succeeds. The response names
\* the token and the account the handler gave the Graph API client. The
\* text of the missing-account error is the one /spend, /leads and /adsets
\* send; /campaigns appends a hint to it.
DataResponse_NoAccountCheck(endpoint, userId, queryAdAccountId, timeRange, upstreamOk) ==
  LET gate == validateUserAndToken(userId, queryAdAccountId) IN
  IF ~gate.next
  THEN DataResp(gate.status, gate.error, gate.expired, FALSE,
                <<>>, NoAccount, 0)
  ELSE DataResp(IF upstreamOk THEN 200 ELSE 500,
                IF upstreamOk THEN NULL ELSE "upstream", FALSE, TRUE,
                gate.accessToken,
                IF endpoint = "accounts" THEN NoAccount ELSE gate.adAccountId,
                1)

DataResponse(endpoint, userId, queryAdAccountId, timeRange, upstreamOk) ==
  LET gate == validateUserAndToken(userId, queryAdAccountId) IN
  IF ~gate.next
  THEN DataResp(gate.status, gate.error, gate.expired, FALSE,
                <<>>, NoAccount, 0)
  ELSE IF endpoint # "accounts" /\ gate.adAccountId = NoAccount
  THEN DataResp(400, "adAccountId is required", FALSE, TRUE,
                <<>>, NoAccount, 0)
  ELSE IF endpoint = "spend" /\ timeRange = "notjson"
  THEN DataResp(400, "Invalid timeRange format", FALSE, TRUE,
                <<>>, NoAccount, 0)
  ELSE DataResp(IF upstreamOk THEN 200 ELSE 500,
                IF upstreamOk THEN NULL ELSE "upstream", FALSE, TRUE,
                gate.accessToken,
                IF endpoint = "accounts" THEN NoAccount ELSE gate.adAccountId,
                1)

\* A gate that removes the credential it finds expired
DataRequest_PurgesExpired(endpoint, userId, queryAdAccountId, timeRange, upstreamOk) ==
  /\ resp = NoResp
  /\ resp' = DataResponse(endpoint, userId, queryAdAccountId, timeRange,
                          upstreamOk)
  /\ store' = {d \in store : ~(d.userId = userId /\ isExpired(d, now))}
  /\ UNCHANGED <<now, cb, issued>>
  /\ UNCHANGED lvars
  /\ UNCHANGED pvars

DataRequest(endpoint, userId, queryAdAccountId, timeRange, upstreamOk) ==
  /\ resp = NoResp
  /\ resp' = DataResponse(endpoint, userId, queryAdAccountId, timeRange,
                          upstreamOk)
  /\ UNCHANGED <<now, store, cb, issued>>
  /\ UNCHANGED lvars
  /\ UNCHANGED pvars

Requests ==
  \/ \E userId \in RequestUsers \cup {NULL} : AuthStart(userId)
  \/ \E userId \in RequestUsers \cup {NULL} : AuthStatus(userId)
  \/ \E userId \in RequestUsers \cup {NULL}, endpoint \in DataEndpoints,
        q \in QueryAccounts, ok \in BOOLEAN :
       \E tr \in (IF endpoint = "spend" THEN TimeRanges ELSE {NULL}) :
         DataRequest(endpoint, userId, q, tr, ok)

\* The server: the clock, the event loop and the routes
Next == Tick \/ Send \/ Callback \/ Requests

Spec == Init /\ [][Next]_vars

\* ------------------------------------- services/metaApi.js (in TESTING.md)
\* adAccountId.startsWith('act_') ? adAccountId : `act_${adAccountId}`
StartsWithAct(id) ==
  Len(id) >= Len(ActPrefix) /\ SubSeq(id, 1, Len(ActPrefix)) = ActPrefix
\* `act_${adAccountId}` whatever the id starts with
NormalizeAccountId_Always(id) == ActPrefix \o id

NormalizeAccountId(id) == IF StartsWithAct(id) THEN id ELSE ActPrefix \o id

\* the loop over formsResponse.data without the slice
Slice5_All(forms) == forms

\* formsResponse.data.slice(0, 5)
Slice5(forms) ==
  IF Len(forms) <= MaxFormsProcessed THEN forms
  ELSE SubSeq(forms, 1, MaxFormsProcessed)

\* A listing of n forms, and what the upstream may answer a per-form request
\* with: an error, a body without data, or a body with up to MaxLeads leads
FormListing(n) == [i \in 1..n |-> [id |-> i, name |-> <<"form", i>>]]
LeadsOf(form, m) == [k \in 1..m |-> [id |-> <<form.id, k>>]]
FetchOutcomes(form) ==
  {<<"throws">>, <<"nodata">>} \cup
  {<<"data", LeadsOf(form, m)>> : m \in 0..MaxLeads}

\* formLeads.data.map(lead => ({ ...lead, form_id: form.id, form_name: form.name }))
TagLeads(data, form) ==
  [k \in 1..Len(data) |->
     [id |-> data[k].id, form_id |-> form.id, form_name |-> form.name]]

\* getLeads, the listing request (lines 275-281): it throws, and getLeads
\* with it; or it returns a body, with or without a data array
ListFormsThrows(adAccountId) ==
  /\ lpc = "idle"
  /\ lcalls' = <<<<NormalizeAccountId(adAccountId), "leadgen_forms">>>>
  /\ lpc' = "threw"
  /\ UNCHANGED <<lforms, lpos, lfetched, leads>>
  /\ UNCHANGED mvars
  /\ UNCHANGED pvars

ListForms(adAccountId, forms) ==
  /\ lpc = "idle"
  /\ lcalls' = <<<<NormalizeAccountId(adAccountId), "leadgen_forms">>>>
  /\ lforms' = forms
  /\ lpc' = "loop"
  /\ UNCHANGED <<lpos, lfetched, leads>>
  /\ UNCHANGED mvars
  /\ UNCHANGED pvars

\* One turn of the loop over the forms (lines 288-305)
FetchFormLeads(outcome) ==
  /\ lpc = "loop"
  /\ lpos < Len(Slice5(lforms))
  /\ LET form == Slice5(lforms)[lpos + 1] IN
     /\ outcome \in FetchOutcomes(form)
     /\ lcalls' = Append(lcalls, <<form.id, "leads">>)
     /\ leads' = IF outcome[1] = "data"
                 THEN leads \o TagLeads(outcome[2], form)
                 ELSE leads
  /\ lfetched' = Append(lfetched, outcome)
  /\ lpos' = lpos + 1
  /\ UNCHANGED <<lpc, lforms>>
  /\ UNCHANGED mvars
  /\ UNCHANGED pvars

\* The loop is through: return { data: leads, paging } (lines 308-311)
ReturnLeads ==
  /\ lpc = "loop"
  /\ lpos = Len(Slice5(lforms))
  /\ lpc' = "returned"
  /\ UNCHANGED <<lforms, lpos, lfetched, lcalls, leads>>
  /\ UNCHANGED mvars
  /\ UNCHANGED pvars

AccountInputs == {ActPrefix \o <<"1">>, <<"1">>}
AllFetchOutcomes ==
  UNION {FetchOutcomes(FormListing(MaxForms)[i]) : i \in 1..MaxForms}

getLeads ==
  \/ \E a \in AccountInputs :
       \/ ListFormsThrows(a)
       \/ \E n \in 0..MaxForms : ListForms(a, FormListing(n))
  \/ \E o \in AllFetchOutcomes : FetchFormLeads(o)
  \/ ReturnLeads

SpecLeads == Init /\ [][getLeads]_vars

\* ------------------------------- routes/auth.js: the state parameter, bytes
\* The state parameter at the level of its bytes and characters. A user id is
\* a sequence of bytes of plain characters ("a", "1", "~"), none of which
\* JSON.stringify escapes; a base64 character is its value 0..63 ("+" is 62,
\* "/" is 63), Pad is "=" and Space is " ".
IdAlphabet == {97, 49, 126}
Plus == 62
Pad == 64
Space == 65
UserIds == UNION {[1..n -> IdAlphabet] : n \in 1..MaxIdLen}

\* JSON.stringify({ userId }): {"userId":" ... "}
JSONPrefix == <<123, 34, 117, 115, 101, 114, 73, 100, 34, 58, 34>>
JSONSuffix == <<34, 125>>
StringifyUserId(userId) == JSONPrefix \o userId \o JSONSuffix

\* Buffer.from(text).toString('base64')
RECURSIVE BufferToBase64(_)
BufferToBase64(b) ==
  IF Len(b) = 0 THEN <<>>
  ELSE IF Len(b) = 1
  THEN <<b[1] \div 4, (b[1] % 4) * 16, Pad, Pad>>
  ELSE IF Len(b) = 2
  THEN <<b[1] \div 4, (b[1] % 4) * 16 + b[2] \div 16, (b[2] % 16) * 4, Pad>>
  ELSE <<b[1] \div 4, (b[1] % 4) * 16 + b[2] \div 16,
         (b[2] % 16) * 4 + b[3] \div 64, b[3] % 64>>
       \o BufferToBase64(SubSeq(b, 4, Len(b)))

\* Buffer.from(state, 'base64'): white space is skipped, padding ends the
\* input, and the bits left over at the end are dropped
IsSextet(c) == c < Pad
RECURSIVE SextetsToBytes(_)
SextetsToBytes(x) ==
  IF Len(x) < 2 THEN <<>>
  ELSE IF Len(x) = 2 THEN <<x[1] * 4 + x[2] \div 16>>
  ELSE IF Len(x) = 3
  THEN <<x[1] * 4 + x[2] \div 16, (x[2] % 16) * 16 + x[3] \div 4>>
  ELSE <<x[1] * 4 + x[2] \div 16, (x[2] % 16) * 16 + x[3] \div 4,
         (x[3] % 4) * 64 + x[4]>>
       \o SextetsToBytes(SubSeq(x, 5, Len(x)))
BufferFromBase64(state) == SextetsToBytes(SelectSeq(state, IsSextet))

\* userId = JSON.parse(text).userId inside the try block (lines 88-96): the
\* text parses to an object whose userId is a string of plain characters, or
\* the block throws
PlainChar(c) == c >= 32 /\ c <= 126 /\ c # 34 /\ c # 92
ParseUserId(text) ==
  LET n == Len(text) IN
  IF /\ n >= Len(JSONPrefix) + Len(JSONSuffix)
     /\ SubSeq(text, 1, Len(JSONPrefix)) = JSONPrefix
     /\ SubSeq(text, n - 1, n) = JSONSuffix
     /\ \A i \in (Len(JSONPrefix) + 1)..(n - 2) : PlainChar(text[i])
  THEN <<"userId", SubSeq(text, Len(JSONPrefix) + 1, n - 2)>>
  ELSE <<"throws">>

\* req.query.state of a query string that holds the characters as they are:
\* the query parser reads "+" as a space
QueryParse(chars) ==
  [i \in 1..Len(chars) |-> IF chars[i] = Plus THEN Space ELSE chars[i]]

\* /auth/start (lines 33, 44-48): the state is built and put into authUrl as
\* it is, without encodeURIComponent
StartBuildsUrl ==
  /\ sPc = "start"
  /\ sState' = BufferToBase64(StringifyUserId(sUserId))
  /\ sPc' = "url"
  /\ UNCHANGED <<sUserId, sParsed>>
  /\ UNCHANGED mvars
  /\ UNCHANGED lvars
  /\ UNCHANGED ovars

\* The upstream redirects to /auth/callback with the state of authUrl. It
\* either percent-encodes what it sends, and req.query.state is the built
\* state, or it sends the characters as they were, and the query parser
\* reads them.
UpstreamRedirects(percentEncoded) ==
  /\ sPc = "url"
  /\ sState' = IF percentEncoded THEN sState ELSE QueryParse(sState)
  /\ sPc' = "callback"
  /\ UNCHANGED <<sUserId, sParsed>>
  /\ UNCHANGED mvars
  /\ UNCHANGED lvars
  /\ UNCHANGED ovars

\* /auth/callback (lines 86-96)
CallbackDecodesState ==
  /\ sPc = "callback"
  /\ sParsed' = ParseUserId(BufferFromBase64(sState))
  /\ sPc' = "decoded"
  /\ UNCHANGED <<sUserId, sState>>
  /\ UNCHANGED mvars
  /\ UNCHANGED lvars
  /\ UNCHANGED ovars

InitState ==
  /\ now = 0 /\ store = {} /\ cb = {} /\ issued = 0 /\ resp = NoResp
  /\ lpc = "idle" /\ lforms = <<>> /\ lpos = 0 /\ lfetched = <<>>
  /\ lcalls = <<>> /\ leads = <<>>
  /\ sPc = "start"
  /\ sUserId \in UserIds
  /\ sState = <<>>
  /\ sParsed = <<"none">>
  /\ oPc = "idle" /\ oAccount = <<>> /\ oQuery = <<>> /\ oRequest = <<>>

StateRoundTrip ==
  \/ StartBuildsUrl
  \/ \E percentEncoded \in BOOLEAN : UpstreamRedirects(percentEncoded)
  \/ CallbackDecodesState

SpecState == InitState /\ [][StateRoundTrip]_vars

\* ------------- routes/meta.js and services/metaApi.js: the upstream request
\* A value of a query or of a params object is a string; UNDEFINED is the
\* value of a key that is absent or set to undefined. A number is written
\* as the query string carries it.
UNDEFINED == "undefined"
DefaultLimit == "25"
CampaignFields ==
  "id,name,status,objective,daily_budget,lifetime_budget,created_time,updated_time"
AdSetFields ==
  "id,name,status,campaign_id,daily_budget,lifetime_budget,billing_event,optimization_goal,created_time"
SpendFields ==
  "campaign_id,campaign_name,spend,impressions,clicks,ctr,cpc,cpp,cpm,reach,frequency,actions"
FormFields == "id,name,status"

\* a || b on two values
OrElse(a, b) == IF a = UNDEFINED \/ a = "" THEN b ELSE a
\* obj.key
Get(obj, key) == IF key \in DOMAIN obj THEN obj[key] ELSE UNDEFINED
\* { ...a, ...b }: the keys of b, also those set to undefined, override a's
Spread(a, b) ==
  [k \in DOMAIN a \cup DOMAIN b |-> IF k \in DOMAIN b THEN b[k] ELSE a[k]]
\* the query string axios builds of params: undefined values are left out
Serialized(params) ==
  [k \in {x \in DOMAIN params : params[x] # UNDEFINED} |-> params[k]]

\* makeGraphApiRequest (lines 179-195); accountId is the local of the
\* operation, kept beside the path it may or may not go into
GraphApiRequest(accountId, path, params) ==
  [accountId |-> accountId, path |-> path,
   params |-> Serialized(Spread([access_token |-> "token"], params))]

\* getCampaigns (lines 215-222)
getCampaigns(adAccountId, params) ==
  LET accountId == NormalizeAccountId(adAccountId) IN
  GraphApiRequest(accountId, <<accountId, "campaigns">>,
    Spread([fields |-> CampaignFields,
            limit  |-> OrElse(Get(params, "limit"), DefaultLimit)], params))

\* getAdSets (lines 232-243)
getAdSets(adAccountId, campaignId, params) ==
  LET accountId == NormalizeAccountId(adAccountId) IN
  GraphApiRequest(accountId,
    IF campaignId # UNDEFINED /\ campaignId # ""
    THEN <<campaignId, "adsets">> ELSE <<accountId, "adsets">>,
    Spread([fields |-> AdSetFields,
            limit  |-> OrElse(Get(params, "limit"), DefaultLimit)], params))

\* getSpend (lines 252-265), for a request without timeRange
getSpend(adAccountId, params) ==
  LET accountId == NormalizeAccountId(adAccountId) IN
  GraphApiRequest(accountId, <<accountId, "insights">>,
    Spread([level       |-> OrElse(Get(params, "level"), "campaign"),
            date_preset |-> OrElse(Get(params, "datePreset"), "last_30d"),
            fields      |-> SpendFields,
            time_range  |-> UNDEFINED,
            limit       |-> OrElse(Get(params, "limit"), DefaultLimit)],
           params))

\* getLeads, its listing request (lines 274-281)
getLeadForms(adAccountId, params) ==
  LET accountId == NormalizeAccountId(adAccountId) IN
  GraphApiRequest(accountId, <<accountId, "leadgen_forms">>,
    [fields |-> FormFields,
     limit  |-> OrElse(Get(params, "limit"), DefaultLimit)])

\* Account ids a handler may pass: one to MaxChunks pieces, each the prefix,
\* a part of it or a digit
Chunks == {ActPrefix, <<"a", "c", "t">>, <<"_">>, <<"1">>}
RECURSIVE Concat(_)
Concat(pieces) ==
  IF pieces = <<>> THEN <<>> ELSE Head(pieces) \o Concat(Tail(pieces))
AccountIds ==
  {Concat(ps) : ps \in UNION {[1..n -> Chunks] : n \in 1..MaxChunks}}
Queries ==
  [limit : {UNDEFINED, "10"}, fields : {UNDEFINED, "id"},
   campaignId : {UNDEFINED, "c1"}]

\* The handlers behind the gate, from the admitted request to the upstream
\* request: /meta/campaigns (meta.js lines 58-71)
Campaigns ==
  /\ oPc = "idle"
  /\ oRequest' = getCampaigns(oAccount,
                   [limit  |-> OrElse(oQuery.limit, DefaultLimit),
                    fields |-> oQuery.fields])
  /\ oPc' = "campaigns"
  /\ UNCHANGED <<oAccount, oQuery>>
  /\ UNCHANGED <<mvars, lvars, svars>>

\* /meta/adsets (meta.js lines 177-190)
AdSets ==
  /\ oPc = "idle"
  /\ oRequest' = getAdSets(oAccount, oQuery.campaignId,
                   [limit  |-> OrElse(oQuery.limit, DefaultLimit),
                    fields |-> oQuery.fields])
  /\ oPc' = "adsets"
  /\ UNCHANGED <<oAccount, oQuery>>
  /\ UNCHANGED <<mvars, lvars, svars>>

\* /meta/spend (meta.js lines 93-121)
Spend ==
  /\ oPc = "idle"
  /\ oRequest' = getSpend(oAccount,
                   [datePreset |-> "last_30d", level |-> "campaign",
                    limit |-> OrElse(oQuery.limit, DefaultLimit)])
  /\ oPc' = "spend"
  /\ UNCHANGED <<oAccount, oQuery>>
  /\ UNCHANGED <<mvars, lvars, svars>>

\* /meta/leads (meta.js lines 143-155)
Leads ==
  /\ oPc = "idle"
  /\ oRequest' = getLeadForms(oAccount,
                   [limit |-> OrElse(oQuery.limit, DefaultLimit)])
  /\ oPc' = "leads"
  /\ UNCHANGED <<oAccount, oQuery>>
  /\ UNCHANGED <<mvars, lvars, svars>>

InitOps ==
  /\ now = 0 /\ store = {} /\ cb = {} /\ issued = 0 /\ resp = NoResp
  /\ lpc = "idle" /\ lforms = <<>> /\ lpos = 0 /\ lfetched = <<>>
  /\ lcalls = <<>> /\ leads = <<>>
  /\ sPc = "start" /\ sUserId = <<>> /\ sState = <<>>
  /\ sParsed = <<"none">>
  /\ oPc = "idle"
  /\ oAccount \in AccountIds
  /\ oQuery \in Queries
  /\ oRequest = <<>>

UpstreamOperation == Campaigns \/ AdSets \/ Spend \/ Leads

SpecOps == InitOps /\ [][UpstreamOperation]_vars

\* =================================================================== claims
\* The data endpoints behind the gate, and the inputs of a data request
AdEndpoints == DataEndpoints \ {"accounts"}
\* the credentials stored for a user id
Credentials(u) == {d \in store : d.userId = u}
\* a credential whose expiry, when it has one, lies ahead of the clock
Unexpired(d) == d.expiresAt = NullDate \/ now < d.expiresAt[1]

\* C1: on every data endpoint the gate answers first: a missing userId is a
\* 400 missing-parameter error, a userId without a stored credential is a 401
\* without the expired flag, a userId whose stored expiry has passed is a 401
\* with expired = true; in none of the three is the answer a 500, the handler
\* run or an upstream call issued. Stated of every state in which a request
\* can be taken, for every request.
C1_GateRejectsFirst ==
  resp = NoResp =>
    \A ep \in DataEndpoints, q \in QueryAccounts, tr \in TimeRanges,
       ok \in BOOLEAN :
      /\ LET r == DataResponse(ep, NULL, q, tr, ok) IN
           /\ r.status = 400 /\ r.error = "userId is required"
           /\ ~r.expired /\ ~r.ran /\ r.calls = 0
      /\ \A u \in RequestUsers :
           LET r == DataResponse(ep, u, q, tr, ok) IN
           /\ Credentials(u) = {} =>
                /\ r.status = 401 /\ ~r.expired /\ ~r.ran /\ r.calls = 0
           /\ (\E d \in Credentials(u) :
                 d.expiresAt # NullDate /\ d.expiresAt[1] < now) =>
                /\ r.status = 401 /\ r.expired /\ ~r.ran /\ r.calls = 0

\* a data request has been answered with the expired 401
C1_Witness ==
  /\ resp.op = "data" /\ resp.status = 401 /\ resp.expired
  /\ \E d \in store : d.expiresAt # NullDate /\ d.expiresAt[1] < now

\* C2, as claimed: on the four endpoints that need an ad account, a request
\* with a userId and no ad-account id available (none in the query, none in a
\* stored credential of the user) is answered 400, whatever the
\* authentication state of the user.
C2_AsClaimed ==
  resp = NoResp =>
    \A ep \in AdEndpoints, u \in RequestUsers, tr \in TimeRanges,
       ok \in BOOLEAN :
      (\A d \in Credentials(u) : d.adAccountId = NoAccount) =>
        DataResponse(ep, u, NoAccount, tr, ok).status = 400

\* C2, amended: the 400 for a missing ad-account id is what a user the gate
\* admits gets (a stored, unexpired credential), with no upstream call; a
\* user without a credential or with an expired one gets the gate's 401.
C2_MissingAccountIs400WhenAdmitted ==
  resp = NoResp =>
    \A ep \in AdEndpoints, u \in RequestUsers, tr \in TimeRanges,
       ok \in BOOLEAN :
      LET r == DataResponse(ep, u, NoAccount, tr, ok) IN
      (\A d \in Credentials(u) : d.adAccountId = NoAccount) =>
        /\ (\E d \in Credentials(u) : Unexpired(d)) =>
             /\ r.status = 400 /\ r.error = "adAccountId is required"
             /\ r.calls = 0
        /\ ~(\E d \in Credentials(u) : Unexpired(d)) => r.status = 401

\* an admitted request has been answered with the missing-account 400
C2_Witness ==
  /\ resp.op = "data" /\ resp.status = 400
  /\ resp.error = "adAccountId is required"
  /\ \E d \in store : Unexpired(d) /\ d.adAccountId = NoAccount

\* C3: whatever callbacks have run, in whatever interleaving, the store holds
\* at most one record per userId; and the upsert of a callback leaves the
\* record of its userId carrying that callback's token, expiry, token type
\* and ad account, adding a record only when the userId had none.
C3_OneRecordPerUser ==
  [][ /\ \A d1, d2 \in store' : d1.userId = d2.userId => d1 = d2
      /\ \A l \in cb, disc \in DiscoveryOutcomes :
           CallbackSave(l, disc) =>
             /\ \E d \in store' :
                  /\ d.userId = l.userId
                  /\ d.accessToken = l.longLivedToken
                  /\ d.expiresAt = l.longLivedExpiresAt
                  /\ d.tokenType = l.token_type
                  /\ d.adAccountId = FirstAccount(disc)
             /\ Cardinality(store') =
                  Cardinality(store) +
                    (IF Credentials(l.userId) = {} THEN 1 ELSE 0)
    ]_vars

\* two callbacks for one userId overlapped and both have saved: the record
\* is the one the first save created and carries the token of the callback
\* that began first, so that callback saved last
C3_Witness ==
  /\ cb = {} /\ issued = 2 /\ Cardinality(store) = 1
  /\ \E d \in store : d.id = 1 /\ d.accessToken[2] = 1

\* C4: isExpired is false at every time for a credential without expiresAt,
\* true when expiresAt lies in the past and false when it lies in the
\* future; and the gate and /auth/status report a stored credential expired
\* exactly when isExpired says so at the current time.
C4_IsExpired ==
  /\ \A d \in store, t \in 0..(MaxTime + 2) :
       /\ d.expiresAt = NullDate => ~isExpired(d, t)
       /\ d.expiresAt # NullDate =>
            /\ d.expiresAt[1] < t => isExpired(d, t)
            /\ d.expiresAt[1] > t => ~isExpired(d, t)
  /\ resp = NoResp =>
       \A u \in RequestUsers : \A d \in Credentials(u) :
         /\ StatusResponse(u).expired = isExpired(d, now)
         /\ StatusResponse(u).authenticated = ~isExpired(d, now)
         /\ \A ep \in DataEndpoints, q \in QueryAccounts, tr \in TimeRanges,
               ok \in BOOLEAN :
              LET r == DataResponse(ep, u, q, tr, ok) IN
              /\ r.expired = isExpired(d, now)
              /\ r.ran = ~isExpired(d, now)

\* /auth/status has reported a credential expired whose expiry is past
C4_Witness ==
  /\ resp.op = "status" /\ resp.expired /\ ~resp.authenticated
  /\ resp.expiresAt # NullDate /\ resp.expiresAt[1] < now

\* C5, as claimed: when the gate admits a request that supplies adAccountId,
\* the account the handler uses is the request's, also when the credential
\* stores one.
C5_AsClaimed ==
  resp = NoResp =>
    \A ep \in AdEndpoints, u \in RequestUsers,
       q \in QueryAccounts \ {NoAccount}, tr \in TimeRanges, ok \in BOOLEAN :
      LET r == DataResponse(ep, u, q, tr, ok) IN
      r.calls = 1 => r.adAccountId = q

\* C7: once the exchange has returned a token, the callback cannot fail: a
\* failed upgrade leaves the request in flight with the short-lived token and
\* its expiry, every request that leaves flight does so with the upsert of
\* its token and a 200, and a failed or empty discovery stores no ad account.
C7_DegradationsAreNotFatal ==
  [][ /\ \A l \in cb :
           (l.pc = "upgrade" /\ l \notin cb') =>
             /\ resp' = NoResp
             /\ \E m \in cb' \ cb :
                  /\ m.pc = "discover" /\ m.userId = l.userId
                  /\ m.longLivedToken[2] = l.longLivedToken[2]
                  /\ m.longLivedToken[1] = "short" =>
                       /\ m.longLivedToken = l.longLivedToken
                       /\ m.longLivedExpiresAt = l.longLivedExpiresAt
      /\ \A l \in cb :
           (l.pc = "discover" /\ l \notin cb') =>
             /\ resp'.op = "callback" /\ resp'.status = 200
             /\ resp'.expiresAt = l.longLivedExpiresAt
             /\ \E d \in store' :
                  /\ d.userId = l.userId
                  /\ d.accessToken = l.longLivedToken
                  /\ d.expiresAt = l.longLivedExpiresAt
      /\ \A l \in cb, disc \in {<<"throws">>, <<"data">>} :
           CallbackSave(l, disc) =>
             \E d \in store' : d.userId = l.userId /\ d.adAccountId = NoAccount
    ]_vars

\* a callback whose upgrade and discovery both failed has answered 200, and
\* its short-lived token is stored without an ad account
C7_Witness ==
  /\ resp.op = "callback" /\ resp.status = 200
  /\ \E d \in store :
       /\ d.userId = resp.userId /\ d.accessToken[1] = "short"
       /\ d.expiresAt = resp.expiresAt /\ d.adAccountId = NoAccount

\* C8, as claimed: the expiry a callback stores and returns is now +
\* expires_in of the token it stores whenever the upstream reported
\* expires_in for that token, and now + 5,184,000 when the long-lived
\* exchange reported none. The expiry is fixed when the token arrives (now
\* is the clock then) and is carried unchanged into the store and the answer.
C8_AsClaimed ==
  [][ /\ \A code \in {NULL, "code"}, state \in StateInputs,
            error \in {NULL, "access_denied"}, e \in ExpiresInVals,
            tt \in TokenTypes :
           (CallbackExchange(code, state, error, e, tt) /\ e # NoExpiresIn) =>
             \E m \in cb' \ cb : m.longLivedExpiresAt = Date(now + e[1])
      /\ \A l \in cb, e \in ExpiresInVals :
           CallbackUpgrade(l, e) =>
             \E m \in cb' \ cb :
               m.longLivedExpiresAt =
                 Date(now + (IF e = NoExpiresIn THEN DefaultLongLived
                             ELSE e[1]))
      /\ \A l \in cb, disc \in DiscoveryOutcomes :
           CallbackSave(l, disc) =>
             /\ resp'.expiresAt = l.longLivedExpiresAt
             /\ \E d \in store' :
                  d.userId = l.userId /\ d.expiresAt = l.longLivedExpiresAt
    ]_vars

\* C9: the store changes only in the step in which a callback upserts and
\* answers 200; /auth/start, /auth/status, the data endpoints and a callback
\* that answers an error leave it as it is; and no step removes a record.
C9_OnlySuccessfulCallbackWrites ==
  [][ /\ store' # store =>
           /\ resp'.op = "callback" /\ resp'.status = 200
           /\ \E l \in cb : l.pc = "discover" /\ l \notin cb'
      /\ resp'.op \in {"start", "status", "data"} => store' = store
      /\ (resp'.op = "callback" /\ resp'.status # 200) => store' = store
      /\ \A d \in store : \E d2 \in store' : d2.id = d.id
    ]_vars

\* a data endpoint has been served from a stored credential, which is still
\* there
C9_Witness ==
  /\ resp.op = "data" /\ resp.status = 200
  /\ \E d \in store : d.accessToken = resp.accessToken

\* C10, as claimed: the upsert of a callback leaves the record of its userId
\* with updatedAt equal to the time of that write, also when it overwrites an
\* existing record.
C10_AsClaimed ==
  [][ \A l \in cb, disc \in DiscoveryOutcomes :
        CallbackSave(l, disc) =>
          \A d \in store' : d.userId = l.userId => d.updatedAt = now
    ]_vars

\* the leads of the first k forms whose request succeeded, in listing order,
\* each tagged with the id and name of its form
RECURSIVE TaggedLeadsOfFirst(_, _, _)
TaggedLeadsOfFirst(forms, fetched, k) ==
  IF k = 0 THEN <<>>
  ELSE TaggedLeadsOfFirst(forms, fetched, k - 1) \o
         (IF fetched[k][1] = "data"
          THEN [j \in 1..Len(fetched[k][2]) |->
                  [id        |-> fetched[k][2][j].id,
                   form_id   |-> forms[k].id,
                   form_name |-> forms[k].name]]
          ELSE <<>>)

\* C6: getLeads requests the leads of the first 5 forms of the listing only,
\* one after the other in listing order; its leads are the concatenation, in
\* that order, of what the successful requests returned, each lead tagged with
\* the id and name of its form; a failed request drops that form's leads only,
\* and nothing but the listing request makes getLeads throw.
C6_LeadsOfFirstFiveForms ==
  /\ lpos <= MaxFormsProcessed /\ lpos <= Len(lforms) /\ Len(lfetched) = lpos
  /\ lpc \in {"loop", "returned"} =>
       /\ Len(lcalls) = lpos + 1
       /\ \A i \in 1..lpos : lcalls[i + 1] = <<lforms[i].id, "leads">>
       /\ leads = TaggedLeadsOfFirst(lforms, lfetched, lpos)
  /\ lpc = "returned" =>
       lpos = (IF Len(lforms) < MaxFormsProcessed THEN Len(lforms)
               ELSE MaxFormsProcessed)
  /\ lpc = "threw" => (Len(lcalls) = 1 /\ lfetched = <<>>)

\* getLeads has returned over a listing of more than 5 forms, the request for
\* the third form failed, and the leads of forms 1, 2, 4 and 5 are returned
C6_Witness ==
  /\ lpc = "returned" /\ Len(lforms) > MaxFormsProcessed
  /\ lfetched[3] = <<"throws">>
  /\ \A i \in {1, 2, 4, 5} : lfetched[i][1] = "data" /\ Len(lfetched[i][2]) = 1
  /\ [i \in 1..Len(leads) |-> leads[i].form_id] = <<1, 2, 4, 5>>

\* the query parameters a callback may arrive with
CallbackInputs ==
  {NULL, "code"} \X StateInputs \X {NULL, "access_denied"}

\* C11: a callback that carries an upstream error, lacks code or state, or
\* whose state does not decode and parse, is answered 400 with no upstream
\* call made, no credential written and no exchange begun; and an exchange
\* that returns no access token is answered 400 after that one call, with
\* no request left in flight for it and no credential written.
C11_CallbackRejections ==
  /\ [](resp = NoResp =>
          \A in \in CallbackInputs :
            ~Accepted(in[1], in[2], in[3]) =>
              ENABLED CallbackReject(in[1], in[2], in[3]))
  /\ [][ /\ (resp = NoResp /\ issued' # issued) =>
             \A in \in CallbackInputs :
               ~Accepted(in[1], in[2], in[3]) =>
                 \A e \in ExpiresInVals, tt \in TokenTypes :
                   ~CallbackExchange(in[1], in[2], in[3], e, tt)
        /\ (resp = NoResp /\ resp' # NoResp /\ resp'.op = "callback") =>
             /\ \A in \in CallbackInputs :
                  ~Accepted(in[1], in[2], in[3]) =>
                    /\ ~CallbackExchangeFails(in[1], in[2], in[3])
                    /\ CallbackReject(in[1], in[2], in[3]) =>
                         /\ resp'.status = 400 /\ resp'.calls = 0
                         /\ store' = store /\ cb' = cb /\ issued' = issued
             /\ resp'.error = "Failed to obtain access token" =>
                  /\ resp'.status = 400 /\ resp'.calls = 1
                  /\ store' = store /\ cb' = cb /\ issued' = issued
      ]_vars

\* with a credential stored, a callback whose exchange returned no token has
\* been answered 400 after its one upstream call
C11_Witness ==
  /\ resp.op = "callback" /\ resp.status = 400 /\ resp.calls = 1
  /\ resp.error = "Failed to obtain access token"
  /\ store # {}

\* the data requests a user can make
DataInputs == DataEndpoints \X QueryAccounts \X TimeRanges \X BOOLEAN

\* C12: while the stored token of a user is expired every data request of
\* the user is answered with the expired 401; the token stays expired over
\* every step but the successful save of a callback for that user; and
\* once such a save has stored an unexpired token the gate admits the user's
\* data requests again.
C12_ExpiredUntilReauthenticated ==
  /\ [](resp = NoResp =>
          \A u \in RequestUsers :
            (\E d \in Credentials(u) : isExpired(d, now)) =>
              \A in \in DataInputs :
                LET r == DataResponse(in[1], u, in[2], in[3], in[4]) IN
                r.status = 401 /\ r.expired /\ ~r.ran /\ r.calls = 0)
  /\ [][ \A u \in RequestUsers :
          /\ (\E d \in Credentials(u) : isExpired(d, now)) =>
               \/ \E d \in store' : d.userId = u /\ isExpired(d, now')
               \/ /\ resp'.op = "callback" /\ resp'.status = 200
                  /\ resp'.userId = u
                  /\ \E l \in cb \ cb' : l.pc = "discover" /\ l.userId = u
          /\ ( /\ resp # resp' /\ resp'.op = "callback" /\ resp'.status = 200
               /\ resp'.userId = u
               /\ \E d \in store' : d.userId = u /\ ~isExpired(d, now') ) =>
               \A in \in DataInputs :
                 LET r == (DataResponse(in[1], u, in[2], in[3], in[4]))' IN
                 r.ran /\ ~r.expired /\ r.status # 401
      ]_vars

\* the stored token of u1 has expired and a data request has been answered
\* with the expired 401, while a callback for u1 that holds an unexpired
\* token has still to save it
C12_Witness ==
  /\ resp.op = "data" /\ resp.status = 401 /\ resp.expired
  /\ \E d \in store : d.userId = "u1" /\ isExpired(d, now)
  /\ \E l \in cb :
       /\ l.pc = "discover" /\ l.userId = "u1"
       /\ ~isExpired([expiresAt |-> l.longLivedExpiresAt], now)

\* C13, as claimed: whatever the user id, the userId the callback recovers
\* from the state it receives is the user id /auth/start built the state
\* from.
C13_AsClaimed ==
  sPc = "decoded" => sParsed = <<"userId", sUserId>>

\* the number of times the prefix stands at the front of an id
RECURSIVE PrefixCount(_)
PrefixCount(id) ==
  IF StartsWithAct(id)
  THEN 1 + PrefixCount(SubSeq(id, Len(ActPrefix) + 1, Len(id)))
  ELSE 0

\* C14, as claimed: in campaigns, ad sets, spend and leads the account id of
\* the upstream request is the given id with the prefix prepended when it
\* lacks it and the given id itself when it carries it, normalizing it again
\* changes nothing, and it carries the prefix exactly once at the front.
C14_AsClaimed ==
  oPc # "idle" =>
    /\ oRequest.accountId = NormalizeAccountId(oAccount)
    /\ NormalizeAccountId(oRequest.accountId) = oRequest.accountId
    /\ PrefixCount(oRequest.accountId) = 1

\* C14, amended: the account id of the upstream request is the given id
\* with the prefix prepended when it lacks it and the given id itself when
\* it carries it; it starts with the prefix, normalizing it again changes
\* nothing, and the prefix stands at its front once when the given id lacked
\* it and as often as in the given id when that carried it. It is the id in
\* the path of every request but that of ad sets filtered by a campaign.
C14_NormalizationIsIdempotent ==
  oPc # "idle" =>
    LET accountId == oRequest.accountId IN
    /\ ~StartsWithAct(oAccount) => accountId = ActPrefix \o oAccount
    /\ StartsWithAct(oAccount) => accountId = oAccount
    /\ StartsWithAct(accountId)
    /\ NormalizeAccountId(accountId) = accountId
    /\ PrefixCount(accountId) =
         (IF StartsWithAct(oAccount) THEN PrefixCount(oAccount) ELSE 1)
    /\ (oPc = "adsets" /\ oQuery.campaignId # UNDEFINED)
         \/ oRequest.path[1] = accountId

\* /meta/spend has made its request for an account id given without the
\* prefix, and the path carries the id with the prefix in front
C14_Witness ==
  /\ oPc = "spend" /\ oAccount = <<"1">>
  /\ oRequest.path = <<ActPrefix \o <<"1">>, "insights">>

\* C15, as claimed: every stored credential carries a user id recovered from
\* the state of its callback; none is stored under an absent userId.
C15_AsClaimed ==
  \A d \in store : d.userId # NULL /\ d.userId \in Users

\* C16, as claimed: the upstream request of /meta/campaigns and /meta/adsets
\* carries the fixed field set of its operation when the caller gives no
\* fields and the caller's fields when it gives them, and limit 25 when the
\* caller gives no limit.
C16_AsClaimed ==
  oPc \in {"campaigns", "adsets"} =>
    /\ Get(oRequest.params, "fields") =
         (IF oQuery.fields # UNDEFINED THEN oQuery.fields
          ELSE IF oPc = "campaigns" THEN CampaignFields ELSE AdSetFields)
    /\ Get(oRequest.params, "limit") =
         (IF oQuery.limit # UNDEFINED THEN oQuery.limit ELSE DefaultLimit)

\* C17: at every moment and for every userId, /auth/status reports
\* authenticated = true exactly when the gate admits a data request of that
\* userId: a user without a credential is not authenticated and not expired,
\* an expired credential is not authenticated and expired, an unexpired one
\* is authenticated and not expired.
C17_StatusAgreesWithGate ==
  resp = NoResp =>
    \A u \in RequestUsers :
      LET st == StatusResponse(u) IN
      /\ \A q \in QueryAccounts :
           st.authenticated = validateUserAndToken(u, q).next
      /\ Credentials(u) = {} => (~st.authenticated /\ ~st.expired)
      /\ \A d \in Credentials(u) :
           /\ ~Unexpired(d) => (~st.authenticated /\ st.expired)
           /\ Unexpired(d) => (st.authenticated /\ ~st.expired)

\* /auth/status has reported u1 authenticated while its credential, which has
\* an expiry, is still ahead of the clock, and the gate admits u1
C17_Witness ==
  /\ resp.op = "status" /\ resp.authenticated /\ ~resp.expired
  /\ resp.expiresAt # NullDate /\ now < resp.expiresAt[1]
  /\ validateUserAndToken("u1", NoAccount).next
====
